---- MODULE Spec2Model ----
(***************************************************************************)
(* The real-time karaoke engine of musicio-ultra.                          *)
(*                                                                         *)
(* Three threads touch the state modelled here:                            *)
(*   - the Tk main thread (UI): the start/stop button karaoke_record_mix,  *)
(*     the volume slider, and the KaraokePlayer transport (seek_to,        *)
(*     skip_backward, skip_forward, on_waveform_click, toggle_play_pause); *)
(*   - the PortAudio thread, which runs audio_callback once per block;     *)
(*   - the session thread start_karaoke, which builds the player and the   *)
(*     stream.                                                             *)
(* Python gives no atomicity beyond one load or one store of a shared      *)
(* name, so a handler that reads a shared field and later writes one is    *)
(* split at those accesses (ui_pc, cb_pc hold each thread's position).     *)
(*                                                                         *)
(* Samples are fixed-point integers: FullScale stands for 1.0.  The mic is *)
(* mono and is copied to both channels, so one channel is modelled.        *)
(***************************************************************************)
EXTENDS Integers, Sequences, FiniteSets, TLC

(* ------------------------------ bounds -------------------------------- *)
\* longest backing track, in frames
MaxLen == 3
\* frames per audio block (the program uses blocksize = 128)
BlockSize == 2
\* audio callbacks per session
MaxCallbacks == 3
\* frames in "5 seconds": int(5 * sample_rate)
SkipSamples == 2
\* width of the waveform canvas in pixels
CanvasWidth == 2
\* largest gain the effects chain applies to a sample
MaxFxGain == 2
\* slider movements per session
MaxSliderChanges == 2
\* start_karaoke threads the model lets run
MaxSessions == 2
\* presses of the record/mix button
MaxPresses == 3
\* frames per second of the backing track (sr)
SampleRate == 2
\* calls of the VU meter's methods
MaxMeterCalls == 3
\* worker threads the model lets process_batch start
MaxWorkers == 2
\* files put on the batch queue
MaxFiles == 2
\* calls of process_batch
MaxBatchCalls == 3
\* calls of clear_queue
MaxClears == 1
\* time.time() at the first call, in tenths of a second
StartTime == 20
\* steps of the clock, and their length in tenths of a second
MaxTicks == 4
TickStep == 5

(* ------------------------ program constants --------------------------- *)
\* 1.0, the clip level of np.clip(mixed, -1.0, 1.0)
FullScale == 1
\* the volume slider runs from 0 to 2
MaxVolume == 2
\* rebuild_fx_board adds the Delay stage if p['echo_mix'] > 0.01 (hundredths)
EchoMixThreshold == 1
\* VUMeter: the bottom of the scale, -60 dB, in tenths of a dB
MinDb == -600
\* VUMeter.peak_hold_time = 1.5 s, in tenths of a second
PeakHoldTime == 15
\* VUMeter.set_levels: the peak decays by 0.5 dB per call, in tenths of a dB
PeakDecay == 5
\* amplitude 1.0, in ten-thousandths
UnitAmplitude == 10000

(* ------------------------------ helpers ------------------------------- *)
Min(a, b) == IF a <= b THEN a ELSE b
Max(a, b) == IF a >= b THEN a ELSE b

\* one frame of a backing track: a fixed pattern that visits +1.0, -1.0, 0
TrackSample(i, phase) ==
    LET r == (i + phase) % 3
    IN  IF r = 0 THEN FullScale ELSE IF r = 1 THEN -FullScale ELSE 0

\* the decoded backing tracks a session may load (sf.read)
BackingTracks ==
    { [i \in 1..n |-> TrackSample(i, p)] : n \in 1..MaxLen, p \in 0..2 }

\* microphone blocks delivered by the device (float samples in [-1, 1])
MicLevels == {-FullScale, 0, FullScale}
MicBlocks == { [i \in 1..BlockSize |-> a] : a \in MicLevels }

Volumes == 0..MaxVolume
FxGains == 0..MaxFxGain
SeekTargets == (0 - SkipSamples)..(MaxLen + SkipSamples)

VARIABLES
    karaoke_stream,         \* self.karaoke_stream: "none" | "active" | "inactive"
    active_karaoke_player,  \* a KaraokePlayer exists
    karaoke_volume,         \* self.karaoke_volume_var
    backing_audio,          \* the decoded backing track of the session
    frame_idx,              \* frame_idx[0], the engine's playback position
    current_position,       \* KaraokePlayer.current_position
    is_playing,             \* KaraokePlayer.is_playing
    toggled,                \* history: toggle_play_pause ran in this session
    ui_pc,                  \* UI thread: "idle" | "seek_cb"
    position_samples,       \* seek_to's argument while seek_to runs
    sought,                 \* history: target of a finished seek no callback has read yet, or -1
    cb_pc,                  \* audio thread: position inside audio_callback
    indata,                 \* the callback's input block
    pos_arg,                \* the value read for update_position
    start,                  \* audio_callback's local start
    outdata,                \* the callback's output block (<<>> until written)
    fx_raised,              \* history: the chain raised in the last finished callback
    ncb,                    \* history: callbacks that returned in this session
    fx_calls,               \* history: invocations of fx_board in this session
    cb_exception            \* history: an exception left audio_callback

\* the effect parameters and the chain built from them
VARIABLES
    fx_params,              \* KaraokePlayer.fx_params, values in hundredths
    fx_board,               \* start_karaoke's fx_board: the published chain (<<>> before the first)
    on_fx_change_callback,  \* KaraokePlayer.on_fx_change_callback is set
    fx_sess_pc,             \* session thread: "none" | "created" | "built" | "running"
    fx_pc,                  \* UI thread inside on_slider_change: "idle" | "notify"
    applied_chain,          \* the chain the last audio callback loaded (<<>> if none)
    slider_changes,         \* history: slider movements in this session
    board_params            \* history: the parameter values fx_board was built from

fxVars == << fx_params, fx_board, on_fx_change_callback, fx_sess_pc, fx_pc,
             applied_chain, slider_changes, board_params >>

\* the session lifecycle: karaoke_record_mix and the start_karaoke threads
VARIABLES
    karaoke_stream_ref,     \* self.karaoke_stream: 0 (None) or the stream of session k
    stream_state,           \* per stream: "unborn" | "created" | "active" | "aborted" | "stopped" | "closed"
    sess_pc,                \* per start_karaoke thread: its position
    sess_i,                 \* per thread: iterations of the wait loop done
    track_frames,           \* per thread: len(backing_audio)
    karaoke_backing_track,  \* a backing track file is set or can be found
    file_frames,            \* frames in that file
    player_owner,           \* self.active_karaoke_player: 0 or the session that created it
    press_pc,               \* UI thread inside karaoke_record_mix
    press_log,              \* history: what each press of the button did
    sess_error,             \* history, per thread: what the except handler reported
    ui_error,               \* history: an AttributeError was raised in karaoke_record_mix
    cb_ran,                 \* history, per stream: a callback has run
    stop_done,              \* history, per stream: a stop() has stopped it
    cb_after_stop,          \* history, per stream: a callback ran after that
    stop_calls,             \* history, per stream: calls of stop() on it
    close_calls             \* history, per stream: calls of close() on it

sessVars == << karaoke_stream_ref, stream_state, sess_pc, sess_i, track_frames,
               karaoke_backing_track, file_frames, player_owner, press_pc,
               press_log, sess_error, ui_error, cb_ran, stop_done, cb_after_stop,
               stop_calls, close_calls >>

\* the VU meter
VARIABLES
    left_level, right_level,    \* VUMeter.left_level, right_level
    left_peak, right_peak,      \* VUMeter.left_peak, right_peak
    last_peak_time,             \* VUMeter.last_peak_time, keys "L" and "R"
    now,                        \* time.time()
    meter_calls,                \* history: calls made
    last_amp,                   \* history: the amplitudes of the last call, if it took amplitudes
    last_call                   \* history: the method called last

vuVars == << left_level, right_level, left_peak, right_peak, last_peak_time,
             now, meter_calls, last_amp, last_call >>

\* the batch processor
VARIABLES
    queue,                  \* BatchProcessor.queue: the files waiting, oldest first
    is_processing,          \* BatchProcessor.is_processing
    current_job,            \* BatchProcessor.current_job: 0 (None) or a file
    worker_pc,              \* per worker thread (process): its position
    worker_job,             \* per worker: its input_file, 0 if none
    clear_pc,               \* UI thread inside clear_queue: "idle" | "check" | "get"
    files_added,            \* history: files put on the queue so far
    batch_calls,            \* history: calls of process_batch
    clears                  \* history: calls of clear_queue

batchVars == << queue, is_processing, current_job, worker_pc, worker_job,
                clear_pc, files_added, batch_calls, clears >>

\* the session thread of the engine's session, as a watchdog on elapsed time
VARIABLES
    wd_pc,                  \* "unborn" | "loop" | "teardown" | "done"
    wd_i                    \* iterations of the wait loop done: seconds slept

wdVars == << wd_pc, wd_i >>

\* the state of the engine: playback position, transport, mixing
engineVars == << karaoke_stream, active_karaoke_player, karaoke_volume, backing_audio,
           frame_idx, current_position, is_playing, toggled, ui_pc,
           position_samples, sought, cb_pc, indata, pos_arg, start, outdata,
           fx_raised, ncb, fx_calls, cb_exception >>

\* the state outside the engine
auxVars == << fxVars, sessVars, vuVars, wdVars, batchVars >>

vars == << engineVars, auxVars >>

outsideFx == << engineVars, sessVars, vuVars, wdVars, batchVars >>
outsideSession == << engineVars, fxVars, vuVars, wdVars, batchVars >>
outsideVu == << engineVars, fxVars, sessVars, wdVars, batchVars >>
outsideWatchdog == << fxVars, sessVars, vuVars, batchVars >>
outsideBatch == << engineVars, fxVars, sessVars, vuVars, wdVars >>

playerVars == << current_position, is_playing, toggled >>
uiVars     == << ui_pc, position_samples >>
cbVars     == << cb_pc, indata, pos_arg, start, outdata >>
histVars   == << fx_raised, ncb, fx_calls, cb_exception >>
appVars    == << karaoke_stream, active_karaoke_player, karaoke_volume, backing_audio >>

\* len(backing_audio)
L == Len(backing_audio)

Silence == [i \in 1..BlockSize |-> 0]

(* ------------------------- pure computations -------------------------- *)
\* a seek_to that stores its argument as it comes
SeekClamp_unclamped(t, len) == t

\* seek_to: max(0, min(position_samples, len(self.backing_audio) - 1))
SeekClamp(t, len) == Max(0, Min(t, len - 1))

\* on_waveform_click: int(click_ratio * len(self.backing_audio))
ClickPosition(x, width, len) == (x * len) \div width

\* an end of block that is not held at the end of the track
BlockEnd_unclamped(s, frames, len) == s + frames

\* audio_callback: end = min(start + frames, len(backing_audio))
BlockEnd(s, frames, len) == Min(s + frames, len)

\* a slice taken from the start of the track whatever the position
BackingChunk_fromStart(audio, s, e, frames) ==
    [i \in 1..frames |-> IF i <= Len(audio) THEN audio[i] ELSE 0]

\* audio_callback: backing_audio[start:end] (a slice stops at the end of the
\* array), zero-padded to frames by np.pad
BackingChunk(audio, s, e, frames) ==
    [i \in 1..frames |->
        IF s + i <= Min(e, Len(audio)) THEN audio[s + i] ELSE 0]

\* fx_board(mic_transposed, sr): the chain's result on a block
ApplyFx(block, gain) == [i \in 1..Len(block) |-> gain * block[i]]

\* block * self.karaoke_volume_var.get()
Scale(block, vol) == [i \in 1..Len(block) |-> block[i] * vol]

\* an except path that drops the block instead of passing it on
FallbackMic_silent(block, vol) == [i \in 1..Len(block) |-> 0]

\* the except path: mic_stereo * self.karaoke_volume_var.get()
FallbackMic(block, vol) == Scale(block, vol)

\* np.clip(x, -1.0, 1.0)
Clip(x) == Max(0 - FullScale, Min(FullScale, x))

\* mixed = np.clip(backing_chunk + mic_with_effects, -1.0, 1.0)
MixBlock(backing, mic) == [i \in 1..Len(backing) |-> Clip(backing[i] + mic[i])]

\* a callback that writes silence once the track has ended
WriteOut_silentAtEnd(audio, s, frames, mic) ==
    IF s < Len(audio)
      THEN MixBlock(BackingChunk(audio, s, BlockEnd(s, frames, Len(audio)), frames), mic)
      ELSE [i \in 1..Len(mic) |-> 0]

\* what audio_callback writes to outdata, given the microphone signal after
\* effects and volume
WriteOut(audio, s, frames, mic) ==
    IF s < Len(audio)
      THEN MixBlock(BackingChunk(audio, s, BlockEnd(s, frames, Len(audio)), frames), mic)
      ELSE mic

(* ------------------------- effect parameters -------------------------- *)
FxKeys == { "reverb_room_size", "reverb_wet", "echo_delay", "echo_feedback",
            "echo_mix", "compressor_threshold", "compressor_ratio",
            "eq_bass", "eq_mid", "eq_treble" }

\* KaraokePlayer.__init__: self.fx_params, in hundredths
DefaultFxParams ==
    [ reverb_room_size |-> 60, reverb_wet |-> 25, echo_delay |-> 30,
      echo_feedback |-> 30, echo_mix |-> 0, compressor_threshold |-> -1800,
      compressor_ratio |-> 350, eq_bass |-> 200, eq_mid |-> 300,
      eq_treble |-> 150 ]

\* create_ui: the declared range (from_, to) of each slider, in hundredths
FxRange ==
    [ reverb_room_size |-> << 0, 100 >>, reverb_wet |-> << 0, 100 >>,
      echo_delay |-> << 10, 100 >>, echo_feedback |-> << 0, 90 >>,
      echo_mix |-> << 0, 100 >>, compressor_threshold |-> << -4000, 0 >>,
      compressor_ratio |-> << 100, 2000 >>, eq_bass |-> << -2000, 2000 >>,
      eq_mid |-> << -2000, 2000 >>, eq_treble |-> << -2000, 2000 >> ]

\* values on_slider_change is called with: below the range, its top, above
\* it, and for echo_mix the two values around the echo threshold
SliderInputs(key) ==
    { FxRange[key][1] - 100, FxRange[key][2], FxRange[key][2] + 50 }
        \cup (IF key = "echo_mix" THEN {EchoMixThreshold, EchoMixThreshold + 1} ELSE {})

Stage(kind, p1, p2, p3) == [kind |-> kind, p1 |-> p1, p2 |-> p2, p3 |-> p3]

\* an echo test that takes any mix above zero
EchoEnabled_anyMix(p) == p.echo_mix > 0

\* rebuild_fx_board: if p['echo_mix'] > 0.01
EchoEnabled(p) == p.echo_mix > EchoMixThreshold

\* rebuild_fx_board: Pedalboard(effects)
RebuildFxBoard(p) ==
    << Stage("Compressor", p.compressor_threshold, p.compressor_ratio, 300),
       Stage("PeakFilter", 100, p.eq_bass, 70),
       Stage("PeakFilter", 3000, p.eq_mid, 100),
       Stage("PeakFilter", 10000, p.eq_treble, 70) >>
    \o (IF EchoEnabled(p)
          THEN << Stage("Delay", p.echo_delay, p.echo_feedback, p.echo_mix) >>
          ELSE << >>)
    \o << Stage("Reverb", p.reverb_room_size, p.reverb_wet, 100 - p.reverb_wet) >>

\* on_fx_change: fx_board = rebuild_fx_board()
OnFxChange(board, p) == RebuildFxBoard(p)

Workers == 1..MaxWorkers

\* BatchProcessor.__init__
BatchInit ==
    /\ queue = << >>
    /\ is_processing = FALSE
    /\ current_job = 0
    /\ worker_pc = [w \in Workers |-> "unborn"]
    /\ worker_job = [w \in Workers |-> 0]
    /\ clear_pc = "idle"
    /\ files_added = 0
    /\ batch_calls = 0
    /\ clears = 0

\* VUMeter.__init__
VuInit ==
    /\ left_level = MinDb
    /\ right_level = MinDb
    /\ left_peak = MinDb
    /\ right_peak = MinDb
    /\ last_peak_time = [L |-> 0, R |-> 0]
    /\ now = StartTime
    /\ meter_calls = 0
    /\ last_amp = << >>
    /\ last_call = "none"

Sessions == 1..MaxSessions

SessInit ==
    /\ karaoke_stream_ref = 0
    /\ stream_state = [s \in Sessions |-> "unborn"]
    /\ sess_pc = [k \in Sessions |-> "unborn"]
    /\ sess_i = [k \in Sessions |-> 0]
    /\ track_frames = [k \in Sessions |-> 0]
    /\ karaoke_backing_track = FALSE
    /\ file_frames = 0
    /\ player_owner = 0
    /\ press_pc = "idle"
    /\ press_log = << >>
    /\ sess_error = [k \in Sessions |-> "none"]
    /\ ui_error = FALSE
    /\ cb_ran = [s \in Sessions |-> FALSE]
    /\ stop_done = [s \in Sessions |-> FALSE]
    /\ cb_after_stop = [s \in Sessions |-> FALSE]
    /\ stop_calls = [s \in Sessions |-> 0]
    /\ close_calls = [s \in Sessions |-> 0]

AuxInit ==
    /\ fx_params = DefaultFxParams
    /\ fx_board = << >>
    /\ on_fx_change_callback = FALSE
    /\ fx_sess_pc = "none"
    /\ fx_pc = "idle"
    /\ applied_chain = << >>
    /\ slider_changes = 0
    /\ board_params = DefaultFxParams
    /\ SessInit
    /\ VuInit
    /\ wd_pc = "unborn"
    /\ wd_i = 0
    /\ BatchInit

(* ------------------------------ Init ---------------------------------- *)
Init ==
    /\ karaoke_stream = "none"
    /\ active_karaoke_player = FALSE
    /\ karaoke_volume = 1
    /\ backing_audio = << >>
    /\ frame_idx = 0
    /\ current_position = 0
    /\ is_playing = FALSE
    /\ toggled = FALSE
    /\ ui_pc = "idle"
    /\ position_samples = 0
    /\ sought = -1
    /\ cb_pc = "idle"
    /\ indata = << >>
    /\ pos_arg = 0
    /\ start = 0
    /\ outdata = << >>
    /\ fx_raised = FALSE
    /\ ncb = 0
    /\ fx_calls = 0
    /\ cb_exception = FALSE
    /\ AuxInit

(* ------------------------- session lifecycle -------------------------- *)
\* karaoke_record_mix with no active stream: start_karaoke loads the track,
\* creates the player, wires on_seek, opens and starts the stream
StartSession ==
    /\ karaoke_stream # "active"
    /\ ui_pc = "idle"
    /\ cb_pc = "idle"
    /\ \E track \in BackingTracks : backing_audio' = track
    /\ active_karaoke_player' = TRUE
    /\ current_position' = 0
    /\ is_playing' = FALSE
    /\ toggled' = FALSE
    /\ frame_idx' = 0
    /\ sought' = -1
    /\ karaoke_stream' = "active"
    /\ indata' = << >>
    /\ outdata' = << >>
    /\ pos_arg' = 0
    /\ start' = 0
    /\ fx_raised' = FALSE
    /\ ncb' = 0
    /\ fx_calls' = 0
    /\ cb_exception' = FALSE
    /\ UNCHANGED << karaoke_volume, ui_pc, position_samples, cb_pc >>
    /\ UNCHANGED auxVars

\* karaoke_record_mix with an active stream: stop() returns once the running
\* callback has returned, then close() and the reference is cleared
StopSession ==
    /\ karaoke_stream = "active"
    /\ ui_pc = "idle"
    /\ cb_pc = "idle"
    /\ karaoke_stream' = "none"
    /\ UNCHANGED << active_karaoke_player, karaoke_volume, backing_audio,
                    frame_idx, sought, playerVars, uiVars, cbVars, histVars >>
    /\ UNCHANGED auxVars

\* the volume slider writes karaoke_volume_var
SetVolume ==
    /\ ui_pc = "idle"
    /\ \E v \in Volumes : v # karaoke_volume /\ karaoke_volume' = v
    /\ UNCHANGED << karaoke_stream, active_karaoke_player, backing_audio,
                    frame_idx, sought, playerVars, uiVars, cbVars, histVars >>
    /\ UNCHANGED auxVars

(* ---------------------- KaraokePlayer transport ----------------------- *)
\* seek_to, first statement: self.current_position = max(0, min(...))
SeekTo(t) ==
    /\ active_karaoke_player
    /\ ui_pc = "idle"
    /\ position_samples' = t
    /\ current_position' = SeekClamp(t, L)
    /\ ui_pc' = "seek_cb"
    /\ sought' = -1
    /\ UNCHANGED << appVars, frame_idx, is_playing, toggled, cbVars, histVars >>
    /\ UNCHANGED auxVars

\* seek_to called with any integer target
SeekToAny == \E t \in SeekTargets : SeekTo(t)

\* on_waveform_click: the click's x lies on the canvas
OnWaveformClick ==
    \E x \in 0..CanvasWidth : SeekTo(ClickPosition(x, CanvasWidth, L))

\* skip_backward: self.seek_to(self.current_position - skip_samples)
SkipBackward == SeekTo(current_position - SkipSamples)

\* skip_forward: self.seek_to(self.current_position + skip_samples)
SkipForward == SeekTo(current_position + SkipSamples)

\* seek_to, second statement: self.on_seek_callback(self.current_position),
\* which is on_seek: frame_idx[0] = position_samples.  The field is read again.
SeekNotify ==
    /\ ui_pc = "seek_cb"
    /\ frame_idx' = current_position
    /\ sought' = SeekClamp(position_samples, L)
    /\ ui_pc' = "idle"
    /\ position_samples' = 0
    /\ UNCHANGED << appVars, playerVars, cbVars, histVars >>
    /\ UNCHANGED auxVars

\* toggle_play_pause: on_play_pause_callback is never set by the application
TogglePlayPause ==
    /\ active_karaoke_player
    /\ ui_pc = "idle"
    /\ is_playing' = ~is_playing
    /\ toggled' = TRUE
    /\ UNCHANGED << appVars, frame_idx, sought, current_position, uiVars,
                    cbVars, histVars >>
    /\ UNCHANGED auxVars

(* --------------------------- audio_callback --------------------------- *)
\* the stream invokes audio_callback with a block; the level is computed and
\* handed to the VU meter, then frame_idx[0] is read for update_position
CbBegin ==
    /\ karaoke_stream = "active"
    /\ cb_pc = "idle"
    /\ ncb < MaxCallbacks
    /\ \E mic \in MicBlocks : indata' = mic
    /\ pos_arg' = frame_idx
    /\ outdata' = << >>
    /\ cb_pc' = "upd"
    /\ UNCHANGED << appVars, frame_idx, sought, playerVars, uiVars, start, histVars >>
    /\ UNCHANGED auxVars

\* karaoke_player.update_position(...): self.current_position = position_samples
CbUpdatePosition ==
    /\ cb_pc = "upd"
    /\ current_position' = pos_arg
    /\ pos_arg' = 0
    /\ cb_pc' = "start"
    /\ UNCHANGED << appVars, frame_idx, sought, is_playing, toggled, uiVars,
                    indata, start, outdata, histVars >>
    /\ UNCHANGED auxVars

\* start = frame_idx[0]
CbReadStart ==
    /\ cb_pc = "start"
    /\ start' = frame_idx
    /\ sought' = -1
    /\ cb_pc' = "adv"
    /\ UNCHANGED << appVars, frame_idx, playerVars, uiVars, indata, pos_arg,
                    outdata, histVars >>
    /\ UNCHANGED auxVars

\* end = min(start + frames, len(backing_audio));
\* if start < len(backing_audio): frame_idx[0] = end
CbAdvance ==
    /\ cb_pc = "adv"
    /\ frame_idx' = IF start < L THEN BlockEnd(start, BlockSize, L) ELSE frame_idx
    /\ cb_pc' = "mix"
    /\ UNCHANGED << appVars, sought, playerVars, uiVars, indata, pos_arg, start,
                    outdata, histVars >>
    /\ UNCHANGED auxVars

\* the chain returns a processed block: scale, mix, clip, write
CbMix ==
    /\ cb_pc = "mix"
    /\ \E gain \in FxGains :
          outdata' = WriteOut(backing_audio, start, BlockSize,
                              Scale(ApplyFx(indata, gain), karaoke_volume))
    /\ fx_raised' = FALSE
    /\ fx_calls' = fx_calls + 1
    /\ ncb' = ncb + 1
    /\ cb_pc' = "idle"
    /\ indata' = << >>
    /\ start' = 0
    /\ UNCHANGED << appVars, frame_idx, sought, playerVars, uiVars, pos_arg,
                    cb_exception >>
    /\ UNCHANGED auxVars

\* the chain raises: the except path passes the unprocessed block on
CbMixFxRaises ==
    /\ cb_pc = "mix"
    /\ outdata' = WriteOut(backing_audio, start, BlockSize,
                           FallbackMic(indata, karaoke_volume))
    /\ fx_raised' = TRUE
    /\ fx_calls' = fx_calls + 1
    /\ ncb' = ncb + 1
    /\ cb_pc' = "idle"
    /\ indata' = << >>
    /\ start' = 0
    /\ UNCHANGED << appVars, frame_idx, sought, playerVars, uiVars, pos_arg,
                    cb_exception >>
    /\ UNCHANGED auxVars

\* the level step raises (karaoke_volume_var.get() or the VU meter, both Tk
\* objects used from the audio thread): nothing catches it
CbLevelRaises ==
    /\ karaoke_stream = "active"
    /\ cb_pc = "idle"
    /\ ncb < MaxCallbacks
    /\ cb_exception' = TRUE
    /\ karaoke_stream' = "inactive"
    /\ outdata' = << >>
    /\ UNCHANGED << active_karaoke_player, karaoke_volume, backing_audio,
                    frame_idx, sought, playerVars, uiVars, cb_pc, indata,
                    pos_arg, start, fx_raised, ncb, fx_calls >>
    /\ UNCHANGED auxVars

\* karaoke_volume_var.get() raises in the try block and again in the except
\* block that handles it
CbMixVolumeRaises ==
    /\ cb_pc = "mix"
    /\ cb_exception' = TRUE
    /\ karaoke_stream' = "inactive"
    /\ fx_calls' = fx_calls + 1
    /\ cb_pc' = "idle"
    /\ indata' = << >>
    /\ start' = 0
    /\ UNCHANGED << active_karaoke_player, karaoke_volume, backing_audio,
                    frame_idx, sought, playerVars, uiVars, pos_arg, outdata,
                    fx_raised, ncb >>
    /\ UNCHANGED auxVars

(* ----------------------- effect chain publication --------------------- *)
\* start_karaoke creates the player: KaraokePlayer.__init__ sets fx_params
\* and leaves on_fx_change_callback None; the sliders can be moved from here
FxCreatePlayer ==
    /\ fx_sess_pc = "none"
    /\ fx_pc = "idle"
    /\ fx_params' = DefaultFxParams
    /\ on_fx_change_callback' = FALSE
    /\ fx_board' = << >>
    /\ applied_chain' = << >>
    /\ slider_changes' = 0
    /\ board_params' = DefaultFxParams
    /\ fx_sess_pc' = "created"
    /\ UNCHANGED << fx_pc, outsideFx >>

\* start_karaoke: fx_board = rebuild_fx_board()
FxBuildInitial ==
    /\ fx_sess_pc = "created"
    /\ fx_board' = RebuildFxBoard(fx_params)
    /\ board_params' = fx_params
    /\ fx_sess_pc' = "built"
    /\ UNCHANGED << fx_params, on_fx_change_callback, fx_pc, applied_chain,
                    slider_changes, outsideFx >>

\* start_karaoke: karaoke_player.on_fx_change_callback = on_fx_change, after
\* which the stream is opened and started
FxWire ==
    /\ fx_sess_pc = "built"
    /\ on_fx_change_callback' = TRUE
    /\ fx_sess_pc' = "running"
    /\ UNCHANGED << fx_params, fx_board, fx_pc, applied_chain, slider_changes,
                    board_params, outsideFx >>

\* on_slider_change: self.fx_params[key] = value
OnSliderChange ==
    /\ fx_sess_pc # "none"
    /\ fx_pc = "idle"
    /\ slider_changes < MaxSliderChanges
    /\ \E key \in FxKeys : \E value \in SliderInputs(key) :
          fx_params' = [fx_params EXCEPT ![key] = value]
    /\ slider_changes' = slider_changes + 1
    /\ fx_pc' = "notify"
    /\ UNCHANGED << fx_board, on_fx_change_callback, fx_sess_pc, applied_chain,
                    board_params, outsideFx >>

\* on_slider_change: if self.on_fx_change_callback: ...(self.fx_params)
OnSliderNotify ==
    /\ fx_pc = "notify"
    /\ fx_board' = IF on_fx_change_callback
                     THEN OnFxChange(fx_board, fx_params)
                     ELSE fx_board
    /\ board_params' = IF on_fx_change_callback THEN fx_params ELSE board_params
    /\ fx_pc' = "idle"
    /\ UNCHANGED << fx_params, on_fx_change_callback, fx_sess_pc, applied_chain,
                    slider_changes, outsideFx >>

\* audio_callback: mic_fx = fx_board(mic_transposed, sr), one load of fx_board
FxCallback ==
    /\ fx_sess_pc = "running"
    /\ applied_chain' = fx_board
    /\ UNCHANGED << fx_params, fx_board, on_fx_change_callback, fx_sess_pc,
                    fx_pc, slider_changes, board_params, outsideFx >>

\* the stream is stopped; the player stays until the next session replaces it
FxSessionEnd ==
    /\ fx_sess_pc = "running"
    /\ fx_pc = "idle"
    /\ fx_sess_pc' = "none"
    /\ UNCHANGED << fx_params, fx_board, on_fx_change_callback, fx_pc,
                    applied_chain, slider_changes, board_params, outsideFx >>

NextFx == FxCreatePlayer \/ FxBuildInitial \/ FxWire \/ OnSliderChange
             \/ OnSliderNotify \/ FxCallback \/ FxSessionEnd

SpecFx == Init /\ [][NextFx]_vars

\* the stage names of a chain, EQ bands told apart by their centre frequency
StageName(st) ==
    IF st.kind = "PeakFilter"
      THEN (IF st.p1 = 100 THEN "EQ bass"
            ELSE IF st.p1 = 3000 THEN "EQ mid" ELSE "EQ treble")
      ELSE IF st.kind = "Delay" THEN "Echo" ELSE st.kind

StageNames(chain) == [i \in 1..Len(chain) |-> StageName(chain[i])]

(* --------------------------- session threads -------------------------- *)
\* sd.Stream.stop(): an active or aborted stream becomes stopped; on any
\* other stream the PortAudio error is ignored (ignore_errors=True)
StopStream(st, r) ==
    IF st[r] \in {"active", "aborted"} THEN [st EXCEPT ![r] = "stopped"] ELSE st

\* sd.Stream.close()
CloseStream(st, r) == [st EXCEPT ![r] = "closed"]

\* the stop() just called on stream r has stopped a running stream
StopDone(r) == [stop_done EXCEPT ![r] = stop_done[r] \/ (stream_state[r] = "active")]

\* for i in range(int(duration)), duration = len(backing_audio) / sr: where
\* thread k goes when i iterations are done
AfterIteration(k, i) ==
    IF i < track_frames[k] \div SampleRate THEN "loop_ref" ELSE "td_ref"

\* the thread the next threading.Thread(target=start_karaoke) is
NewSession ==
    CHOOSE k \in Sessions :
        /\ sess_pc[k] = "unborn"
        /\ \A j \in Sessions : j < k => sess_pc[j] # "unborn"

\* karaoke_record_mix after the stop branch: with no backing track the press
\* ends in a warning, otherwise it spawns start_karaoke
StartPathEnabled == karaoke_backing_track => \E k \in Sessions : sess_pc[k] = "unborn"

StartPathOutcome == IF karaoke_backing_track THEN "start" ELSE "rejected"

SpawnSession ==
    IF karaoke_backing_track THEN [sess_pc EXCEPT ![NewSession] = "load"] ELSE sess_pc

\* karaoke_record_mix: self.karaoke_stream is None, so the press takes the
\* start path: backing-track checks, then the start_karaoke thread
PressNoStream ==
    /\ press_pc = "idle"
    /\ Len(press_log) < MaxPresses
    /\ karaoke_stream_ref = 0
    /\ StartPathEnabled
    /\ sess_pc' = SpawnSession
    /\ press_log' = Append(press_log, StartPathOutcome)
    /\ UNCHANGED << karaoke_stream_ref, stream_state, sess_i, track_frames,
                    karaoke_backing_track, file_frames, player_owner,
                    press_pc, sess_error, ui_error, cb_ran, stop_done,
                    cb_after_stop, stop_calls, close_calls,
                    outsideSession >>

\* karaoke_record_mix: self.karaoke_stream is set; .active is read next
PressSeesStream ==
    /\ press_pc = "idle"
    /\ Len(press_log) < MaxPresses
    /\ karaoke_stream_ref # 0
    /\ press_pc' = "check_active"
    /\ UNCHANGED << karaoke_stream_ref, stream_state, sess_pc, sess_i,
                    track_frames, karaoke_backing_track, file_frames,
                    player_owner, press_log, sess_error, ui_error, cb_ran,
                    stop_done, cb_after_stop, stop_calls, close_calls,
                    outsideSession >>

\* karaoke_record_mix: the stream is not active, so the press takes the start path
PressStreamInactive ==
    /\ press_pc = "check_active"
    /\ karaoke_stream_ref # 0
    /\ stream_state[karaoke_stream_ref] # "active"
    /\ StartPathEnabled
    /\ sess_pc' = SpawnSession
    /\ press_log' = Append(press_log, StartPathOutcome)
    /\ press_pc' = "idle"
    /\ UNCHANGED << karaoke_stream_ref, stream_state, sess_i, track_frames,
                    karaoke_backing_track, file_frames, player_owner,
                    sess_error, ui_error, cb_ran, stop_done, cb_after_stop,
                    stop_calls, close_calls,
                    outsideSession >>

\* karaoke_record_mix: the stream is active, the press is a stop request
PressStreamActive ==
    /\ press_pc = "check_active"
    /\ karaoke_stream_ref # 0
    /\ stream_state[karaoke_stream_ref] = "active"
    /\ press_pc' = "stop"
    /\ press_log' = Append(press_log, "stop")
    /\ UNCHANGED << karaoke_stream_ref, stream_state, sess_pc, sess_i,
                    track_frames, karaoke_backing_track, file_frames,
                    player_owner, sess_error, ui_error, cb_ran, stop_done,
                    cb_after_stop, stop_calls, close_calls,
                    outsideSession >>

\* karaoke_record_mix: self.karaoke_stream.stop()
PressStop ==
    /\ press_pc = "stop"
    /\ karaoke_stream_ref # 0
    /\ stream_state' = StopStream(stream_state, karaoke_stream_ref)
    /\ stop_done' = StopDone(karaoke_stream_ref)
    /\ press_pc' = "close"
    /\ stop_calls' = [stop_calls EXCEPT ![karaoke_stream_ref] = @ + 1]
    /\ UNCHANGED << karaoke_stream_ref, sess_pc, sess_i, track_frames,
                    karaoke_backing_track, file_frames, player_owner,
                    press_log, sess_error, ui_error, cb_ran, cb_after_stop,
                    close_calls,
                    outsideSession >>

\* karaoke_record_mix: self.karaoke_stream.close()
PressClose ==
    /\ press_pc = "close"
    /\ karaoke_stream_ref # 0
    /\ stream_state' = CloseStream(stream_state, karaoke_stream_ref)
    /\ press_pc' = "clear"
    /\ close_calls' = [close_calls EXCEPT ![karaoke_stream_ref] = @ + 1]
    /\ UNCHANGED << karaoke_stream_ref, sess_pc, sess_i, track_frames,
                    karaoke_backing_track, file_frames, player_owner,
                    press_log, sess_error, ui_error, cb_ran, stop_done,
                    cb_after_stop, stop_calls,
                    outsideSession >>

\* karaoke_record_mix: self.karaoke_stream = None
PressClear ==
    /\ press_pc = "clear"
    /\ karaoke_stream_ref' = 0
    /\ press_pc' = "idle"
    /\ UNCHANGED << stream_state, sess_pc, sess_i, track_frames,
                    karaoke_backing_track, file_frames, player_owner,
                    press_log, sess_error, ui_error, cb_ran, stop_done,
                    cb_after_stop, stop_calls, close_calls,
                    outsideSession >>

\* karaoke_record_mix: self.karaoke_stream, read again, has become None; in the
\* stop branch the except logs it, in the if it leaves the Tk callback
PressAttributeError ==
    /\ press_pc \in {"check_active", "stop", "close"}
    /\ karaoke_stream_ref = 0
    /\ press_log' = IF press_pc = "check_active" THEN Append(press_log, "error")
                                    ELSE press_log
    /\ ui_error' = TRUE
    /\ press_pc' = "idle"
    /\ UNCHANGED << karaoke_stream_ref, stream_state, sess_pc, sess_i,
                    track_frames, karaoke_backing_track, file_frames,
                    player_owner, sess_error, cb_ran, stop_done,
                    cb_after_stop, stop_calls, close_calls,
                    outsideSession >>

\* a backing track file of n frames appears (created, or found in the output folder)
CreateBackingTrack(n) ==
    /\ ~karaoke_backing_track
    /\ karaoke_backing_track' = TRUE
    /\ file_frames' = n
    /\ UNCHANGED << karaoke_stream_ref, stream_state, sess_pc, sess_i,
                    track_frames, player_owner, press_pc, press_log,
                    sess_error, ui_error, cb_ran, stop_done, cb_after_stop,
                    stop_calls, close_calls,
                    outsideSession >>

\* start_karaoke: backing_audio, sr = sf.read(self.karaoke_backing_track)
SessLoad(k) ==
    /\ sess_pc[k] = "load"
    /\ track_frames' = [track_frames EXCEPT ![k] = file_frames]
    /\ sess_pc' = [sess_pc EXCEPT ![k] = "player"]
    /\ UNCHANGED << karaoke_stream_ref, stream_state, sess_i,
                    karaoke_backing_track, file_frames, player_owner,
                    press_pc, press_log, sess_error, ui_error, cb_ran,
                    stop_done, cb_after_stop, stop_calls, close_calls,
                    outsideSession >>

\* start_karaoke: the KaraokePlayer is created and installed as
\* self.active_karaoke_player
SessInstallPlayer(k) ==
    /\ sess_pc[k] = "player"
    /\ player_owner' = k
    /\ sess_pc' = [sess_pc EXCEPT ![k] = "open"]
    /\ UNCHANGED << karaoke_stream_ref, stream_state, sess_i, track_frames,
                    karaoke_backing_track, file_frames, press_pc, press_log,
                    sess_error, ui_error, cb_ran, stop_done, cb_after_stop,
                    stop_calls, close_calls,
                    outsideSession >>

\* start_karaoke: self.karaoke_stream = sd.Stream(...)
SessOpen(k) ==
    /\ sess_pc[k] = "open"
    /\ karaoke_stream_ref' = k
    /\ stream_state' = [stream_state EXCEPT ![k] = "created"]
    /\ sess_pc' = [sess_pc EXCEPT ![k] = "start"]
    /\ UNCHANGED << sess_i, track_frames, karaoke_backing_track, file_frames,
                    player_owner, press_pc, press_log, sess_error, ui_error,
                    cb_ran, stop_done, cb_after_stop, stop_calls, close_calls,
                    outsideSession >>

\* start_karaoke: the device lookup or sd.Stream(...) raises; the except
\* logs and shows the error
SessOpenFails(k) ==
    /\ sess_pc[k] = "open"
    /\ sess_error' = [sess_error EXCEPT ![k] = "open"]
    /\ sess_pc' = [sess_pc EXCEPT ![k] = "failed"]
    /\ UNCHANGED << karaoke_stream_ref, stream_state, sess_i, track_frames,
                    karaoke_backing_track, file_frames, player_owner,
                    press_pc, press_log, ui_error, cb_ran, stop_done,
                    cb_after_stop, stop_calls, close_calls,
                    outsideSession >>

\* start_karaoke: self.karaoke_stream.start()
SessStart(k) ==
    /\ sess_pc[k] = "start"
    /\ karaoke_stream_ref # 0
    /\ stream_state[karaoke_stream_ref] \in {"created", "stopped"}
    /\ stream_state' = [stream_state EXCEPT ![karaoke_stream_ref] = "active"]
    /\ sess_pc' = [sess_pc EXCEPT ![k] = AfterIteration(k, 0)]
    /\ UNCHANGED << karaoke_stream_ref, sess_i, track_frames,
                    karaoke_backing_track, file_frames, player_owner,
                    press_pc, press_log, sess_error, ui_error, cb_ran,
                    stop_done, cb_after_stop, stop_calls, close_calls,
                    outsideSession >>

\* start_karaoke: self.karaoke_stream.start() raises (the device refuses, or the
\* attribute has become None); the except logs and shows the error
SessStartFails(k) ==
    /\ sess_pc[k] = "start"
    /\ sess_error' = [sess_error EXCEPT ![k] =
            IF karaoke_stream_ref = 0 THEN "attr" ELSE "start"]
    /\ sess_pc' = [sess_pc EXCEPT ![k] = "failed"]
    /\ UNCHANGED << karaoke_stream_ref, stream_state, sess_i, track_frames,
                    karaoke_backing_track, file_frames, player_owner,
                    press_pc, press_log, ui_error, cb_ran, stop_done,
                    cb_after_stop, stop_calls, close_calls,
                    outsideSession >>

\* wait loop: not self.karaoke_stream -> break
SessLoopSeesNone(k) ==
    /\ sess_pc[k] = "loop_ref"
    /\ karaoke_stream_ref = 0
    /\ sess_pc' = [sess_pc EXCEPT ![k] = "td_ref"]
    /\ UNCHANGED << karaoke_stream_ref, stream_state, sess_i, track_frames,
                    karaoke_backing_track, file_frames, player_owner,
                    press_pc, press_log, sess_error, ui_error, cb_ran,
                    stop_done, cb_after_stop, stop_calls, close_calls,
                    outsideSession >>

\* wait loop: self.karaoke_stream is set; .active is read next
SessLoopSeesStream(k) ==
    /\ sess_pc[k] = "loop_ref"
    /\ karaoke_stream_ref # 0
    /\ sess_pc' = [sess_pc EXCEPT ![k] = "loop_active"]
    /\ UNCHANGED << karaoke_stream_ref, stream_state, sess_i, track_frames,
                    karaoke_backing_track, file_frames, player_owner,
                    press_pc, press_log, sess_error, ui_error, cb_ran,
                    stop_done, cb_after_stop, stop_calls, close_calls,
                    outsideSession >>

\* wait loop: not self.karaoke_stream.active -> break
SessLoopInactive(k) ==
    /\ sess_pc[k] = "loop_active"
    /\ karaoke_stream_ref # 0
    /\ stream_state[karaoke_stream_ref] # "active"
    /\ sess_pc' = [sess_pc EXCEPT ![k] = "td_ref"]
    /\ UNCHANGED << karaoke_stream_ref, stream_state, sess_i, track_frames,
                    karaoke_backing_track, file_frames, player_owner,
                    press_pc, press_log, sess_error, ui_error, cb_ran,
                    stop_done, cb_after_stop, stop_calls, close_calls,
                    outsideSession >>

\* wait loop: the stream is active; sd.sleep(1000) and the next iteration
SessLoopSleep(k) ==
    /\ sess_pc[k] = "loop_active"
    /\ karaoke_stream_ref # 0
    /\ stream_state[karaoke_stream_ref] = "active"
    /\ sess_i' = [sess_i EXCEPT ![k] = sess_i[k] + 1]
    /\ sess_pc' = [sess_pc EXCEPT ![k] = AfterIteration(k, sess_i[k] + 1)]
    /\ UNCHANGED << karaoke_stream_ref, stream_state, track_frames,
                    karaoke_backing_track, file_frames, player_owner,
                    press_pc, press_log, sess_error, ui_error, cb_ran,
                    stop_done, cb_after_stop, stop_calls, close_calls,
                    outsideSession >>

\* teardown: self.karaoke_stream is None, nothing to do
SessTeardownSeesNone(k) ==
    /\ sess_pc[k] = "td_ref"
    /\ karaoke_stream_ref = 0
    /\ sess_pc' = [sess_pc EXCEPT ![k] = "done"]
    /\ UNCHANGED << karaoke_stream_ref, stream_state, sess_i, track_frames,
                    karaoke_backing_track, file_frames, player_owner,
                    press_pc, press_log, sess_error, ui_error, cb_ran,
                    stop_done, cb_after_stop, stop_calls, close_calls,
                    outsideSession >>

\* teardown: self.karaoke_stream is set; .active is read next
SessTeardownSeesStream(k) ==
    /\ sess_pc[k] = "td_ref"
    /\ karaoke_stream_ref # 0
    /\ sess_pc' = [sess_pc EXCEPT ![k] = "td_active"]
    /\ UNCHANGED << karaoke_stream_ref, stream_state, sess_i, track_frames,
                    karaoke_backing_track, file_frames, player_owner,
                    press_pc, press_log, sess_error, ui_error, cb_ran,
                    stop_done, cb_after_stop, stop_calls, close_calls,
                    outsideSession >>

\* teardown: the stream is not active, nothing is done
SessTeardownInactive(k) ==
    /\ sess_pc[k] = "td_active"
    /\ karaoke_stream_ref # 0
    /\ stream_state[karaoke_stream_ref] # "active"
    /\ sess_pc' = [sess_pc EXCEPT ![k] = "done"]
    /\ UNCHANGED << karaoke_stream_ref, stream_state, sess_i, track_frames,
                    karaoke_backing_track, file_frames, player_owner,
                    press_pc, press_log, sess_error, ui_error, cb_ran,
                    stop_done, cb_after_stop, stop_calls, close_calls,
                    outsideSession >>

\* teardown: the stream is active
SessTeardownActive(k) ==
    /\ sess_pc[k] = "td_active"
    /\ karaoke_stream_ref # 0
    /\ stream_state[karaoke_stream_ref] = "active"
    /\ sess_pc' = [sess_pc EXCEPT ![k] = "td_stop"]
    /\ UNCHANGED << karaoke_stream_ref, stream_state, sess_i, track_frames,
                    karaoke_backing_track, file_frames, player_owner,
                    press_pc, press_log, sess_error, ui_error, cb_ran,
                    stop_done, cb_after_stop, stop_calls, close_calls,
                    outsideSession >>

\* teardown: self.karaoke_stream.stop()
SessTeardownStop(k) ==
    /\ sess_pc[k] = "td_stop"
    /\ karaoke_stream_ref # 0
    /\ stream_state' = StopStream(stream_state, karaoke_stream_ref)
    /\ stop_done' = StopDone(karaoke_stream_ref)
    /\ sess_pc' = [sess_pc EXCEPT ![k] = "td_close"]
    /\ stop_calls' = [stop_calls EXCEPT ![karaoke_stream_ref] = @ + 1]
    /\ UNCHANGED << karaoke_stream_ref, sess_i, track_frames,
                    karaoke_backing_track, file_frames, player_owner,
                    press_pc, press_log, sess_error, ui_error, cb_ran,
                    cb_after_stop, close_calls,
                    outsideSession >>

\* teardown: self.karaoke_stream.close()
SessTeardownClose(k) ==
    /\ sess_pc[k] = "td_close"
    /\ karaoke_stream_ref # 0
    /\ stream_state' = CloseStream(stream_state, karaoke_stream_ref)
    /\ sess_pc' = [sess_pc EXCEPT ![k] = "td_clear"]
    /\ close_calls' = [close_calls EXCEPT ![karaoke_stream_ref] = @ + 1]
    /\ UNCHANGED << karaoke_stream_ref, sess_i, track_frames,
                    karaoke_backing_track, file_frames, player_owner,
                    press_pc, press_log, sess_error, ui_error, cb_ran,
                    stop_done, cb_after_stop, stop_calls,
                    outsideSession >>

\* teardown: self.karaoke_stream = None
SessTeardownClear(k) ==
    /\ sess_pc[k] = "td_clear"
    /\ karaoke_stream_ref' = 0
    /\ sess_pc' = [sess_pc EXCEPT ![k] = "done"]
    /\ UNCHANGED << stream_state, sess_i, track_frames,
                    karaoke_backing_track, file_frames, player_owner,
                    press_pc, press_log, sess_error, ui_error, cb_ran,
                    stop_done, cb_after_stop, stop_calls, close_calls,
                    outsideSession >>

\* start_karaoke: self.karaoke_stream, read again, has become None; the
\* AttributeError reaches the except, which logs and shows the error
SessAttributeError(k) ==
    /\ sess_pc[k] \in {"loop_active", "td_active", "td_stop", "td_close"}
    /\ karaoke_stream_ref = 0
    /\ sess_error' = [sess_error EXCEPT ![k] = "attr"]
    /\ sess_pc' = [sess_pc EXCEPT ![k] = "failed"]
    /\ UNCHANGED << karaoke_stream_ref, stream_state, sess_i, track_frames,
                    karaoke_backing_track, file_frames, player_owner,
                    press_pc, press_log, ui_error, cb_ran, stop_done,
                    cb_after_stop, stop_calls, close_calls,
                    outsideSession >>

\* PortAudio runs audio_callback on an active stream
SessCallback(s) ==
    /\ stream_state[s] = "active"
    /\ cb_ran' = [cb_ran EXCEPT ![s] = TRUE]
    /\ cb_after_stop' = [cb_after_stop EXCEPT ![s] = cb_after_stop[s] \/ stop_done[s]]
    /\ UNCHANGED << karaoke_stream_ref, stream_state, sess_pc, sess_i,
                    track_frames, karaoke_backing_track, file_frames,
                    player_owner, press_pc, press_log, sess_error, ui_error,
                    stop_done, stop_calls, close_calls,
                    outsideSession >>

\* an exception leaves audio_callback: PortAudio aborts the stream, which
\* is then inactive but neither stopped nor closed
SessCallbackRaises(s) ==
    /\ stream_state[s] = "active"
    /\ stream_state' = [stream_state EXCEPT ![s] = "aborted"]
    /\ UNCHANGED << karaoke_stream_ref, sess_pc, sess_i, track_frames,
                    karaoke_backing_track, file_frames, player_owner,
                    press_pc, press_log, sess_error, ui_error, cb_ran,
                    stop_done, cb_after_stop, stop_calls, close_calls,
                    outsideSession >>

Press ==
    \/ PressNoStream \/ PressSeesStream \/ PressStreamInactive
    \/ PressStreamActive \/ PressStop \/ PressClose \/ PressClear
    \/ PressAttributeError

SessionThread(k) ==
    \/ SessLoad(k) \/ SessInstallPlayer(k) \/ SessOpen(k) \/ SessOpenFails(k)
    \/ SessStart(k) \/ SessStartFails(k)
    \/ SessLoopSeesNone(k) \/ SessLoopSeesStream(k) \/ SessLoopInactive(k)
    \/ SessLoopSleep(k)
    \/ SessTeardownSeesNone(k) \/ SessTeardownSeesStream(k)
    \/ SessTeardownInactive(k) \/ SessTeardownActive(k)
    \/ SessTeardownStop(k) \/ SessTeardownClose(k) \/ SessTeardownClear(k)
    \/ SessAttributeError(k)

NextSessions ==
    \/ Press
    \/ \E n \in 0..MaxLen : CreateBackingTrack(n)
    \/ \E k \in Sessions : SessionThread(k)
    \/ \E s \in Sessions : SessCallback(s) \/ SessCallbackRaises(s)

SpecSessions == Init /\ [][NextSessions]_vars

(* ------------------------------ VU meter ------------------------------ *)
\* levels in tenths of a dB handed to set_levels: below, at and inside the
\* scale, at its top and above it
DbInputs == { MinDb - 100, MinDb, -300, 0, 100 }

\* amplitudes in ten-thousandths handed to set_levels_from_amplitude
Amplitudes == { -1, 0, 1, 1000, 5000, UnitAmplitude, 2 * UnitAmplitude }

\* 20 * np.log10(amplitude) in tenths of a dB, for the amplitudes above zero
TwentyLog10 ==
    [ a \in { x \in Amplitudes : x > 0 } |->
        CASE a = 1 -> -800
          [] a = 1000 -> -200
          [] a = 5000 -> -60
          [] a = UnitAmplitude -> 0
          [] a = 2 * UnitAmplitude -> 60 ]

\* a set_levels that stores the level as given
ClampDb_none(db) == db

\* set_levels / amplitude_to_db: max(-60, min(0, db))
ClampDb(db) == Max(MinDb, Min(0, db))

\* amplitude_to_db
AmplitudeToDb(amplitude) ==
    IF amplitude <= 0 THEN MinDb ELSE ClampDb(TwentyLog10[amplitude])

\* a peak that decays on every call that does not raise it, hold or no hold
PeakAfter_noHold(db, peak, t) ==
    [ peak |-> IF db > peak THEN db ELSE Max(peak - PeakDecay, MinDb),
      time |-> IF db > peak THEN now ELSE t ]

\* set_levels, one channel: the peak follows a higher level, and decays once
\* the hold time since the last peak has passed
PeakAfter(db, peak, t) ==
    LET p1 == IF db > peak THEN db ELSE peak
        t1 == IF db > peak THEN now ELSE t
    IN  [ peak |-> IF now - t1 > PeakHoldTime THEN Max(p1 - PeakDecay, MinDb) ELSE p1,
          time |-> t1 ]

\* the body of set_levels(left_db, right_db)
StoreLevels(left_db, right_db) ==
    LET l == ClampDb(left_db)
        r == ClampDb(right_db)
        pl == PeakAfter(l, left_peak, last_peak_time.L)
        pr == PeakAfter(r, right_peak, last_peak_time.R)
    IN  /\ left_level' = l
        /\ right_level' = r
        /\ left_peak' = pl.peak
        /\ right_peak' = pr.peak
        /\ last_peak_time' = [L |-> pl.time, R |-> pr.time]

\* VUMeter.set_levels
SetLevels(left_db, right_db) ==
    /\ meter_calls < MaxMeterCalls
    /\ StoreLevels(left_db, right_db)
    /\ last_amp' = << >>
    /\ last_call' = "set_levels"
    /\ meter_calls' = meter_calls + 1
    /\ UNCHANGED << now, outsideVu >>

\* VUMeter.set_levels_from_amplitude
SetLevelsFromAmplitude(left_amp, right_amp) ==
    /\ meter_calls < MaxMeterCalls
    /\ StoreLevels(AmplitudeToDb(left_amp), AmplitudeToDb(right_amp))
    /\ last_amp' = << left_amp, right_amp >>
    /\ last_call' = "set_levels_from_amplitude"
    /\ meter_calls' = meter_calls + 1
    /\ UNCHANGED << now, outsideVu >>

\* VUMeter.reset
Reset ==
    /\ meter_calls < MaxMeterCalls
    /\ left_level' = MinDb
    /\ right_level' = MinDb
    /\ left_peak' = MinDb
    /\ right_peak' = MinDb
    /\ last_amp' = << >>
    /\ last_call' = "reset"
    /\ meter_calls' = meter_calls + 1
    /\ UNCHANGED << last_peak_time, now, outsideVu >>

\* time passes between calls
Tick ==
    /\ now < StartTime + MaxTicks * TickStep
    /\ now' = now + TickStep
    /\ UNCHANGED << left_level, right_level, left_peak, right_peak,
                    last_peak_time, meter_calls, last_amp, last_call,
                    outsideVu >>

NextVu ==
    \/ \E l \in DbInputs, r \in DbInputs : SetLevels(l, r)
    \/ \E l \in Amplitudes, r \in Amplitudes : SetLevelsFromAmplitude(l, r)
    \/ Reset
    \/ Tick

SpecVu == Init /\ [][NextVu]_vars

(* --------------------------- specifications --------------------------- *)
Session == StartSession \/ StopSession \/ SetVolume

Seeks == SeekToAny \/ OnWaveformClick \/ SkipBackward \/ SkipForward \/ SeekNotify

Callback == CbBegin \/ CbUpdatePosition \/ CbReadStart \/ CbAdvance
               \/ CbMix \/ CbMixFxRaises

Next == Session \/ Seeks \/ TogglePlayPause \/ Callback

Spec == Init /\ [][Next]_vars

\* playback during which nobody seeks
NextNoSeek == Session \/ TogglePlayPause \/ Callback

SpecNoSeek == Init /\ [][NextNoSeek]_vars

\* playback during which the only seeks are the two skip buttons
NextSkips ==
    \/ Session \/ TogglePlayPause \/ Callback
    \/ SkipBackward \/ SkipForward \/ SeekNotify

SpecSkips == Init /\ [][NextSkips]_vars

\* a session whose microphone delivers only all-zero blocks
CbBeginSilent == CbBegin /\ indata' = Silence

NextSilentMic ==
    \/ Session \/ Seeks \/ TogglePlayPause
    \/ CbBeginSilent \/ CbUpdatePosition \/ CbReadStart \/ CbAdvance
    \/ CbMix \/ CbMixFxRaises

SpecSilentMic == Init /\ [][NextSilentMic]_vars

\* the Tk objects the callback uses may raise
NextFault == Next \/ CbLevelRaises \/ CbMixVolumeRaises

SpecFault == Init /\ [][NextFault]_vars

(* ------------------- the wait loop against playback ------------------- *)
\* start_karaoke after self.karaoke_stream.start(): duration and the loop
WdEnterLoop ==
    /\ wd_pc = "unborn"
    /\ karaoke_stream = "active"
    /\ wd_pc' = "loop"
    /\ wd_i' = 0
    /\ UNCHANGED << engineVars, outsideWatchdog >>

\* one iteration: the stream is active, sd.sleep(1000); the sleep returns when
\* a second has passed, in which the device has played sr frames
WdSleep ==
    /\ wd_pc = "loop"
    /\ wd_i < L \div SampleRate
    /\ karaoke_stream = "active"
    /\ ncb * BlockSize >= (wd_i + 1) * SampleRate
    /\ wd_i' = wd_i + 1
    /\ UNCHANGED << wd_pc, engineVars, outsideWatchdog >>

\* the loop ends: range(int(duration)) is exhausted, or the break
WdLoopEnds ==
    /\ wd_pc = "loop"
    /\ wd_i >= L \div SampleRate \/ karaoke_stream # "active"
    /\ wd_pc' = "teardown"
    /\ UNCHANGED << wd_i, engineVars, outsideWatchdog >>

\* teardown: if the stream is active, stop() (which returns once the running
\* callback has returned), close() and self.karaoke_stream = None
WdTeardown ==
    /\ wd_pc = "teardown"
    /\ karaoke_stream = "active" => cb_pc = "idle"
    /\ karaoke_stream' = IF karaoke_stream = "active" THEN "none" ELSE karaoke_stream
    /\ wd_pc' = "done"
    /\ UNCHANGED << wd_i, active_karaoke_player, karaoke_volume, backing_audio,
                    frame_idx, sought, playerVars, uiVars, cbVars, histVars,
                    outsideWatchdog >>

\* the one session of a run in which the user never presses stop
WdStartSession == StartSession /\ wd_pc = "unborn"

NextWatchdog ==
    \/ WdStartSession \/ Seeks \/ Callback
    \/ WdEnterLoop \/ WdSleep \/ WdLoopEnds \/ WdTeardown

SpecWatchdog == Init /\ [][NextWatchdog]_vars

(* --------------------------- batch processor -------------------------- *)
\* the thread the next threading.Thread(target=process) is
NewWorker ==
    CHOOSE w \in Workers :
        /\ worker_pc[w] = "unborn"
        /\ \A v \in Workers : v < w => worker_pc[v] # "unborn"

\* add_files: self.queue.put(path), one file
AddFile ==
    /\ files_added < MaxFiles
    /\ queue' = Append(queue, files_added + 1)
    /\ files_added' = files_added + 1
    /\ UNCHANGED << is_processing, current_job, worker_pc, worker_job,
                    clear_pc, batch_calls, clears, outsideBatch >>

\* process_batch: if self.is_processing: return False
ProcessBatchRejected ==
    /\ batch_calls < MaxBatchCalls
    /\ is_processing
    /\ batch_calls' = batch_calls + 1
    /\ UNCHANGED << queue, is_processing, current_job, worker_pc, worker_job,
                    clear_pc, files_added, clears, outsideBatch >>

\* process_batch: is_processing is False; the worker thread is started and
\* True returned; the thread has not run yet
ProcessBatchAccepted ==
    /\ batch_calls < MaxBatchCalls
    /\ ~is_processing
    /\ \E w \in Workers : worker_pc[w] = "unborn"
    /\ worker_pc' = [worker_pc EXCEPT ![NewWorker] = "set_flag"]
    /\ batch_calls' = batch_calls + 1
    /\ UNCHANGED << queue, is_processing, current_job, worker_job, clear_pc,
                    files_added, clears, outsideBatch >>

\* clear_queue is called
ClearBegin ==
    /\ clear_pc = "idle"
    /\ clears < MaxClears
    /\ clear_pc' = "check"
    /\ clears' = clears + 1
    /\ UNCHANGED << queue, is_processing, current_job, worker_pc, worker_job,
                    files_added, batch_calls, outsideBatch >>

\* clear_queue: while not self.queue.empty()
ClearCheck ==
    /\ clear_pc = "check"
    /\ clear_pc' = IF queue = << >> THEN "idle" ELSE "get"
    /\ UNCHANGED << queue, is_processing, current_job, worker_pc, worker_job,
                    files_added, batch_calls, clears, outsideBatch >>

\* clear_queue: self.queue.get_nowait(); on an empty queue it raises and the
\* except breaks out of the loop
ClearGet ==
    /\ clear_pc = "get"
    /\ queue' = IF queue = << >> THEN queue ELSE Tail(queue)
    /\ clear_pc' = IF queue = << >> THEN "idle" ELSE "check"
    /\ UNCHANGED << is_processing, current_job, worker_pc, worker_job,
                    files_added, batch_calls, clears, outsideBatch >>

\* process: self.is_processing = True
WorkerSetFlag(w) ==
    /\ worker_pc[w] = "set_flag"
    /\ is_processing' = TRUE
    /\ worker_pc' = [worker_pc EXCEPT ![w] = "check"]
    /\ UNCHANGED << queue, current_job, worker_job, clear_pc, files_added,
                    batch_calls, clears, outsideBatch >>

\* process: while not self.queue.empty()
WorkerCheck(w) ==
    /\ worker_pc[w] = "check"
    /\ worker_pc' = [worker_pc EXCEPT ![w] = IF queue = << >> THEN "reset_flag" ELSE "get"]
    /\ UNCHANGED << queue, is_processing, current_job, worker_job, clear_pc,
                    files_added, batch_calls, clears, outsideBatch >>

\* process: input_file = self.queue.get(), which blocks while the queue is
\* empty; self.current_job = input_file
WorkerGet(w) ==
    /\ worker_pc[w] = "get"
    /\ queue # << >>
    /\ queue' = Tail(queue)
    /\ worker_job' = [worker_job EXCEPT ![w] = Head(queue)]
    /\ current_job' = Head(queue)
    /\ worker_pc' = [worker_pc EXCEPT ![w] = "work"]
    /\ UNCHANGED << is_processing, clear_pc, files_added, batch_calls,
                    clears, outsideBatch >>

\* process: shift_pitch returns or raises; either way task_done() and the
\* next iteration
WorkerWork(w) ==
    /\ worker_pc[w] = "work"
    /\ worker_job' = [worker_job EXCEPT ![w] = 0]
    /\ worker_pc' = [worker_pc EXCEPT ![w] = "check"]
    /\ UNCHANGED << queue, is_processing, current_job, clear_pc, files_added,
                    batch_calls, clears, outsideBatch >>

\* process: self.is_processing = False
WorkerResetFlag(w) ==
    /\ worker_pc[w] = "reset_flag"
    /\ is_processing' = FALSE
    /\ worker_pc' = [worker_pc EXCEPT ![w] = "reset_job"]
    /\ UNCHANGED << queue, current_job, worker_job, clear_pc, files_added,
                    batch_calls, clears, outsideBatch >>

\* process: self.current_job = None
WorkerResetJob(w) ==
    /\ worker_pc[w] = "reset_job"
    /\ current_job' = 0
    /\ worker_pc' = [worker_pc EXCEPT ![w] = "done"]
    /\ UNCHANGED << queue, is_processing, worker_job, clear_pc, files_added,
                    batch_calls, clears, outsideBatch >>

NextBatch ==
    \/ AddFile \/ ProcessBatchRejected \/ ProcessBatchAccepted
    \/ ClearBegin \/ ClearCheck \/ ClearGet
    \/ \E w \in Workers :
          \/ WorkerSetFlag(w) \/ WorkerCheck(w) \/ WorkerGet(w) \/ WorkerWork(w)
          \/ WorkerResetFlag(w) \/ WorkerResetJob(w)

SpecBatch == Init /\ [][NextBatch]_vars

TypeOK ==
    /\ karaoke_stream \in {"none", "active", "inactive"}
    /\ karaoke_volume \in Volumes
    /\ frame_idx \in Int /\ current_position \in Int
    /\ ui_pc \in {"idle", "seek_cb"}
    /\ cb_pc \in {"idle", "upd", "start", "adv", "mix"}
    /\ ncb \in 0..MaxCallbacks

(* ------------------------------ claims -------------------------------- *)
\* C1: every sample the audio callback writes to the output buffer lies in
\* [-1.0, 1.0], whatever the microphone amplitude, the volume (0..2), the
\* playback position (end-of-track included) and the outcome of the chain.
OutputWithinFullScale ==
    \A i \in DOMAIN outdata :
        outdata[i] >= 0 - FullScale /\ outdata[i] <= FullScale

\* C2: with no seek, after N callbacks of BlockSize frames from position 0 on
\* a track of L frames the playback position is min(N * BlockSize, L): it
\* reaches L, stays at L on later callbacks, and never wraps or exceeds L.
\* (The callback that is past its advance already counts.)
PositionAfterCallbacks ==
    active_karaoke_player =>
        frame_idx = Min((IF cb_pc = "mix" THEN ncb + 1 ELSE ncb) * BlockSize, L)

\* C2 witness: a callback has run with the position already at the end of a
\* track whose length is not a whole number of blocks, and it stayed there.
PositionHeldAtEnd ==
    /\ cb_pc = "idle"
    /\ active_karaoke_player
    /\ L % BlockSize # 0
    /\ ncb * BlockSize >= L + BlockSize
    /\ frame_idx = L

\* C3: under every interleaving of callbacks with seek_to, the skips and
\* waveform clicks, frame_idx and current_position stay within 0..L.
PositionInRange ==
    active_karaoke_player =>
        /\ 0 <= frame_idx /\ frame_idx <= L
        /\ 0 <= current_position /\ current_position <= L

\* C3 witness: a seek beyond the end has stored its clamped target while a
\* callback is between reading the position and advancing it.
ClampedSeekDuringCallback ==
    /\ ui_pc = "seek_cb"
    /\ position_samples > L
    /\ current_position = L - 1
    /\ cb_pc = "adv"
    /\ start > 0

\* C4: seek_to(t) sets current_position to max(0, min(t, L-1)) and hands
\* exactly that value to the engine's position, so the position a seek
\* leaves is below L.
SeekHandsClampedTarget ==
    [][ /\ (ui_pc = "idle" /\ ui_pc' = "seek_cb")
            => current_position' = Max(0, Min(position_samples', L - 1))
        /\ (ui_pc = "seek_cb" /\ ui_pc' = "idle")
            => /\ frame_idx' = Max(0, Min(position_samples, L - 1))
               /\ frame_idx' < L ]_vars

\* C5: after a seek to frame F during playback, the next reading of the
\* playback position by a callback yields F: its block starts at frame F.
NextCallbackReadsSeekTarget ==
    [][ (cb_pc = "start" /\ cb_pc' = "adv" /\ sought >= 0)
            => start' = sought ]_vars

\* C6: the callback's advance is atomic with respect to a seek: a callback
\* that read the position before a seek wrote it does not overwrite the
\* seek's write with old + N; after both, the position is the F the seek
\* wrote or min(F + N, L).
AdvanceNeverOverwritesSeek ==
    [][ (cb_pc = "adv" /\ cb_pc' = "mix" /\ sought >= 0)
            => frame_idx' \in {frame_idx, Min(frame_idx + BlockSize, L)} ]_vars

\* C7: while the transport is paused by toggle_play_pause, a callback does
\* not advance the playback position.
PausedHoldsPosition ==
    [][ (toggled /\ ~is_playing /\ cb_pc = "adv" /\ cb_pc' = "mix")
            => frame_idx' = frame_idx ]_vars

\* C8: once a session has started and its stream is active the transport is
\* Playing: is_playing is true as long as nobody has toggled.
PlayingOnSessionStart ==
    (karaoke_stream = "active" /\ ~toggled) => is_playing

\* C9: when the chain raises, the callback still writes its N frames by the
\* passthrough path: the unprocessed microphone block times the volume, summed
\* with the backing block where the track still has frames (that sum hard
\* clipped like every mixed block), the playback position exactly as the
\* advance left it; and every callback, also the one after a failure, invokes
\* the chain.
FxFailureFallsBackToPassthrough ==
    [][ (cb_pc = "mix" /\ cb_pc' = "idle" /\ ~cb_exception') =>
          /\ fx_calls' = fx_calls + 1
          /\ fx_raised' =>
               /\ Len(outdata') = BlockSize
               /\ frame_idx' = frame_idx
               /\ \A i \in 1..BlockSize :
                    LET dry == indata[i] * karaoke_volume
                        sum == IF start + i <= L
                                 THEN backing_audio[start + i] + dry
                                 ELSE dry
                    IN  outdata'[i] =
                          IF start < L
                            THEN Max(0 - FullScale, Min(FullScale, sum))
                            ELSE dry ]_vars

\* C9 witness: a callback whose chain raised has returned with a block that
\* is not silent, in a session where an earlier callback had completed.
FxFailedBlockWritten ==
    /\ cb_pc = "idle"
    /\ fx_raised
    /\ ncb >= 2
    /\ Len(outdata) = BlockSize
    /\ outdata # Silence

\* C10: no failure of a step of the audio callback leaves the callback as an
\* exception.
NoExceptionLeavesCallback == ~cb_exception

PublishedChainIsCurrent ==
    /\ applied_chain # << >> =>
          StageNames(applied_chain) \in
              { << "Compressor", "EQ bass", "EQ mid", "EQ treble", "Reverb" >>,
                << "Compressor", "EQ bass", "EQ mid", "EQ treble", "Echo",
                   "Reverb" >> }
    /\ (fx_sess_pc = "running" /\ fx_pc = "idle") =>
          fx_board = RebuildFxBoard(fx_params)

StopThenCloseThenClear ==
    /\ [][ /\ \A s \in Sessions :
                (stream_state[s] # "closed" /\ stream_state'[s] = "closed")
                    => stream_state[s] # "active"
           /\ (karaoke_stream_ref # 0 /\ karaoke_stream_ref' = 0)
                    => stream_state[karaoke_stream_ref] = "closed" ]_vars
    /\ [](\A s \in Sessions : ~cb_after_stop[s])

\* C14: a press that stopped the session, followed by another press, leaves
\* the session stopped: the second press starts no session and raises no error
SecondStopStartsNothing ==
    \A i \in 1..(Len(press_log) - 1) :
        press_log[i] = "stop" => press_log[i + 1] \notin {"start", "error"}

\* C16: a start with a missing or zero-length backing track is rejected before
\* any stream is opened: no thread is spawned without a track, and a thread
\* that loaded zero frames creates no stream and runs no callback
EmptyTrackOpensNoStream ==
    /\ ~karaoke_backing_track => \A k \in Sessions : sess_pc[k] = "unborn"
    /\ \A k \in Sessions :
          (sess_pc[k] \notin {"unborn", "load"} /\ track_frames[k] = 0)
              => (stream_state[k] = "unborn" /\ ~cb_ran[k])

\* C17: after a failed open or start of the stream the failure is reported and
\* nothing half-initialized remains: self.karaoke_stream does not name an
\* unclosed stream of the failed session and its player is not installed
FailedStartLeavesNothing ==
    \A k \in Sessions :
        sess_error[k] \in {"open", "start"} =>
            /\ ~(karaoke_stream_ref = k /\ stream_state[k] # "closed")
            /\ player_owner # k

\* C18: every session whose stream started is torn down: with no stop request
\* from the user, once the session thread has run to its end the stream is
\* closed and self.karaoke_stream no longer names it
StartedStreamTornDown ==
    \A k \in Sessions :
        ( /\ sess_pc[k] = "done"
          /\ stream_state[k] \notin {"unborn", "created"}
          /\ \A i \in 1..Len(press_log) : press_log[i] # "stop" )
            => (stream_state[k] = "closed" /\ karaoke_stream_ref # k)

\* C20: after any sequence of set_levels, set_levels_from_amplitude and reset
\* the two levels and the two peaks lie in [-60, 0] dB, and a call with an
\* amplitude <= 0 leaves the level at exactly -60, one with an amplitude >= 1 at 0
MeterWithinScale ==
    /\ \A v \in { left_level, right_level, left_peak, right_peak } :
          MinDb <= v /\ v <= 0
    /\ last_amp # << >> =>
          /\ last_amp[1] <= 0 => left_level = MinDb
          /\ last_amp[1] >= UnitAmplitude => left_level = 0
          /\ last_amp[2] <= 0 => right_level = MinDb
          /\ last_amp[2] >= UnitAmplitude => right_level = 0

\* a later call with an amplitude above 1 on the left and a negative one on the
\* right has set the left level to 0 and the right one to -60, the right peak
\* still holding a higher earlier level
OverdrivenAmplitudeClamped ==
    /\ meter_calls >= 2
    /\ last_amp = << 2 * UnitAmplitude, -1 >>
    /\ left_level = 0
    /\ right_level = MinDb
    /\ right_peak > MinDb

\* C19: a callback that finds the position at or past the end of the track
\* leaves the position and the stream as they are and writes a whole block of
\* the microphone signal alone: processed by the chain and scaled by the
\* volume, or, when the chain raises, the unprocessed block scaled by the volume
EndOfTrackWritesMicOnly ==
    [][ /\ (cb_pc = "adv" /\ cb_pc' = "mix" /\ start >= L)
            => (frame_idx' = frame_idx /\ karaoke_stream' = karaoke_stream)
        /\ (cb_pc = "mix" /\ cb_pc' = "idle" /\ start >= L)
            => /\ Len(outdata') = BlockSize
               /\ frame_idx' = frame_idx
               /\ karaoke_stream' = karaoke_stream
               /\ IF fx_raised'
                    THEN outdata' = FallbackMic(indata, karaoke_volume)
                    ELSE \E gain \in FxGains :
                            outdata' = Scale(ApplyFx(indata, gain), karaoke_volume)
      ]_vars

\* a callback has run with the position at the end of a non-empty track: the
\* block it wrote is above full scale, which only the microphone-only branch
\* can write, and the stream is still active
EndOfTrackBlockWritten ==
    /\ L > 0
    /\ frame_idx = L
    /\ cb_pc = "idle"
    /\ karaoke_stream = "active"
    /\ Len(outdata) = BlockSize
    /\ \E i \in 1..Len(outdata) : outdata[i] > FullScale

\* C21: in every set_levels call, for each channel, a level above the peak
\* becomes the peak at once; a peak not raised keeps its value while less than
\* the hold time (1.5 s) has passed since it was last raised, and once more
\* than the hold time has passed the call lowers it by exactly 0.5 dB, but
\* not below -60 dB
PeakHoldsThenDecays ==
    [][ (meter_calls' = meter_calls + 1 /\ last_call' # "reset") =>
          /\ left_level' > left_peak => left_peak' = left_level'
          /\ (left_level' <= left_peak /\ now - last_peak_time.L < PeakHoldTime)
                => left_peak' = left_peak
          /\ (left_level' <= left_peak /\ now - last_peak_time.L > PeakHoldTime)
                => left_peak' = Max(left_peak - PeakDecay, MinDb)
          /\ right_level' > right_peak => right_peak' = right_level'
          /\ (right_level' <= right_peak /\ now - last_peak_time.R < PeakHoldTime)
                => right_peak' = right_peak
          /\ (right_level' <= right_peak /\ now - last_peak_time.R > PeakHoldTime)
                => right_peak' = Max(right_peak - PeakDecay, MinDb)
      ]_vars

\* the left peak was raised to 0 dB by a call, held, and after more than the
\* hold time a set_levels call has lowered it by 0.5 dB; the right peak,
\* raised later, is still held
PeakDecayedAfterHold ==
    /\ last_call = "set_levels"
    /\ left_peak = 0 - PeakDecay
    /\ last_peak_time.L >= StartTime
    /\ now - last_peak_time.L > PeakHoldTime
    /\ right_peak = 0
    /\ now - last_peak_time.R < PeakHoldTime

\* C22: with a silent microphone every callback writes exactly the block of
\* the backing track at the position it read, with zeros for the frames past
\* the end of the track
SilentMicOutputIsBacking ==
    [][ (cb_pc = "mix" /\ cb_pc' = "idle") =>
            outdata' = [i \in 1..BlockSize |->
                          IF start + i <= L THEN backing_audio[start + i] ELSE 0]
      ]_vars

\* a callback has written the final partial block of a track, read from a
\* position above zero: the last sample of the track, then zero padding
FinalPartialBlockPadded ==
    /\ cb_pc = "idle"
    /\ ncb >= 2
    /\ frame_idx = L
    /\ L % BlockSize # 0
    /\ Len(outdata) = BlockSize
    /\ outdata[1] = backing_audio[L]
    /\ outdata[1] # 0
    /\ outdata[BlockSize] = 0

\* C23: a skip seeks by the fixed delta from the engine's playback position
\* p = frame_idx at the time of the call: skip_forward stores the target
\* min(p + delta, L - 1), skip_backward the target max(p - delta, 0)
SkipsFromEnginePosition ==
    [][ (ui_pc = "idle" /\ ui_pc' = "seek_cb") =>
          /\ position_samples' = current_position + SkipSamples
                => current_position' = Min(frame_idx + SkipSamples, L - 1)
          /\ position_samples' = current_position - SkipSamples
                => current_position' = Max(frame_idx - SkipSamples, 0)
      ]_vars

\* C24: at most one karaoke stream is open and active at any time
AtMostOneActiveStream ==
    Cardinality({ s \in Sessions : stream_state[s] = "active" }) <= 1

\* C25: the wait loop and teardown of a session thread stop and close only the
\* stream of its own session
ThreadStopsOwnStreamOnly ==
    [][ \A k \in Sessions :
          /\ (sess_pc[k] = "td_stop" /\ sess_pc'[k] = "td_close")
                => karaoke_stream_ref = k
          /\ (sess_pc[k] = "td_close" /\ sess_pc'[k] = "td_clear")
                => karaoke_stream_ref = k
      ]_vars

\* C26: with a single session, a user stop that races with the session
\* thread's wait loop or teardown ends in no error: the stream is stopped and
\* closed at most once, no None reference is dereferenced on either thread
\* and the except handler of start_karaoke reports nothing
StopRaceEndsCleanly ==
    (\A k \in Sessions : k > 1 => sess_pc[k] = "unborn") =>
        /\ stop_calls[1] <= 1
        /\ close_calls[1] <= 1
        /\ ~ui_error
        /\ sess_error[1] # "attr"

\* C27: with no stop from the user, the session thread's wait on elapsed time
\* stops the stream only when no frame of the backing track remains unplayed
WatchdogStopsOnlyAtEnd ==
    [][ (wd_pc = "teardown" /\ karaoke_stream = "active"
                            /\ karaoke_stream' # "active")
            => frame_idx >= L ]_vars

\* C28: whenever no audio callback is executing (and, here, no seek is in
\* progress on the UI thread either) the position shown to the UI,
\* current_position, is within one block of the engine's position frame_idx
UiPositionWithinOneBlock ==
    (karaoke_stream = "active" /\ cb_pc = "idle" /\ ui_pc = "idle") =>
        /\ current_position - frame_idx <= BlockSize
        /\ frame_idx - current_position <= BlockSize

\* C29: at most one batch worker thread exists at a time: a process_batch
\* call made while an earlier batch is started and not finished starts none
AtMostOneBatchWorker ==
    Cardinality({ w \in Workers : worker_pc[w] \notin {"unborn", "done"} }) <= 1

\* C30: every started batch finishes: a worker never waits in queue.get() on
\* an empty queue, where only a later add_files could release it, and once
\* every worker has left its loop is_processing is False and current_job None
BatchWorkerFinishes ==
    /\ \A w \in Workers : worker_pc[w] = "get" => queue # << >>
    /\ (\A w \in Workers : worker_pc[w] \in {"unborn", "done"}) =>
          (~is_processing /\ current_job = 0)

====
